---- MODULE Spec2Model ----
(***************************************************************************)
(* unPAC: the FPAC archive container codec.                                *)
(*   src/src/utils.rs       alignment arithmetic, fixed-length name field  *)
(*   src/src/pac.rs         PacMeta / PacMetaEntry: derived sizes, records *)
(*   src/src/pac/parser.rs  parse / parse_entry / take_str_of_size         *)
(*   src/src/error.rs       PacError                                       *)
(* Bytes are naturals 0..255, byte strings and slices are sequences.       *)
(***************************************************************************)
EXTENDS Integers, Sequences, FiniteSets, TLC

(***************************************************************************)
(* Bounds of the model.                                                    *)
(***************************************************************************)
MaxEntries == 2
MaxSize == 40
MaxStep == 17
MaxLen == 3

(***************************************************************************)
(* Sequence helpers.                                                       *)
(***************************************************************************)
Zeros(n) == [x \in 1..n |-> 0]

Drop(s, n) == SubSeq(s, n + 1, Len(s))

Take(s, n) == SubSeq(s, 1, n)

RECURSIVE Flatten(_)
Flatten(ss) == IF ss = <<>> THEN <<>> ELSE Head(ss) \o Flatten(Tail(ss))

RECURSIVE SumSeq(_)
SumSeq(s) == IF s = <<>> THEN 0 ELSE Head(s) + SumSeq(Tail(s))

Max(S) == CHOOSE x \in S : \A y \in S : y <= x

(***************************************************************************)
(* src/src/utils.rs                                                        *)
(***************************************************************************)
(* variant: pads but never truncates *)
to_fixed_length_keep(string, size) ==
    IF Len(string) < size THEN string \o Zeros(size - Len(string)) ELSE string

to_fixed_length(string, size) ==
    LET bytes == Take(string, IF Len(string) < size THEN Len(string) ELSE size)
    IN  IF Len(bytes) < size THEN bytes \o Zeros(size - Len(bytes)) ELSE bytes

pad_to_nearest(size, step) ==
    LET rem == size % step
    IN  IF rem = 0 THEN 0 ELSE size + (step - rem)

(* variant: no excess when size is already aligned *)
pad_to_nearest_with_excess_exact(size, step) ==
    LET rem == size % step
    IN  IF rem = 0 THEN size ELSE size + (step - rem)

pad_to_nearest_with_excess(size, step) ==
    LET rem == size % step
    IN  size + (step - rem)

(* variant: a full step when size is already aligned *)
needed_to_align_excess(size, step) == step - (size % step)

needed_to_align(size, step) ==
    LET rem == size % step
    IN  IF rem = 0 THEN 0 ELSE step - rem

(* variant: nothing when size is already aligned *)
needed_to_align_with_excess_zero(size, step) ==
    LET rem == size % step
    IN  IF rem = 0 THEN 0 ELSE step - rem

needed_to_align_with_excess(size, step) ==
    LET rem == size % step
    IN  step - rem

(***************************************************************************)
(* Little-endian u32 (byteorder write_u32::<LE>, nom le_u32).              *)
(***************************************************************************)
write_u32(v) ==
    << v % 256, (v \div 256) % 256, (v \div 65536) % 256, (v \div 16777216) % 256 >>

U32At(i) == i[1] + 256 * i[2] + 65536 * i[3] + 16777216 * i[4]

(***************************************************************************)
(* nom combinators on a slice i.  A result is [ok, rest, val] or           *)
(* [ok |-> FALSE, kind] with nom's ErrorKind.                              *)
(***************************************************************************)
Ok(rest, val) == [ok |-> TRUE, rest |-> rest, val |-> val]

Fail(kind) == [ok |-> FALSE, kind |-> kind]

take(n, i) == IF Len(i) >= n THEN Ok(Drop(i, n), Take(i, n)) ELSE Fail("Eof")

le_u32(i) == IF Len(i) >= 4 THEN Ok(Drop(i, 4), U32At(i)) ELSE Fail("Eof")

HEADER_SIZE == 32

HEADER_MAGIC == << 70, 80, 65, 67 >>

tag(i) ==
    IF Len(i) >= 4 /\ Take(i, 4) = HEADER_MAGIC THEN Ok(Drop(i, 4), HEADER_MAGIC)
    ELSE Fail("Tag")

take_until_nul(i) ==
    IF \E p \in 1..Len(i) : i[p] = 0
    THEN LET p == CHOOSE q \in 1..Len(i) : i[q] = 0 /\ \A r \in 1..(q - 1) : i[r] # 0
         IN  Ok(Drop(i, p - 1), Take(i, p - 1))
    ELSE Fail("TakeUntil")

IsCont(b) == b >= 128 /\ b <= 191

(* str::from_utf8: well-formed UTF-8 (Unicode table 3-7). *)
RECURSIVE from_utf8_ok(_)
from_utf8_ok(b) ==
    IF b = <<>> THEN TRUE
    ELSE LET h == b[1]
             n == Len(b)
         IN  IF h <= 127 THEN from_utf8_ok(Drop(b, 1))
             ELSE IF h >= 194 /\ h <= 223
             THEN n >= 2 /\ IsCont(b[2]) /\ from_utf8_ok(Drop(b, 2))
             ELSE IF h >= 224 /\ h <= 239
             THEN /\ n >= 3
                  /\ IsCont(b[2])
                  /\ IsCont(b[3])
                  /\ (h = 224 => b[2] >= 160)
                  /\ (h = 237 => b[2] <= 159)
                  /\ from_utf8_ok(Drop(b, 3))
             ELSE IF h >= 240 /\ h <= 244
             THEN /\ n >= 4
                  /\ IsCont(b[2])
                  /\ IsCont(b[3])
                  /\ IsCont(b[4])
                  /\ (h = 240 => b[2] >= 144)
                  /\ (h = 244 => b[2] <= 143)
                  /\ from_utf8_ok(Drop(b, 4))
             ELSE FALSE

(***************************************************************************)
(* src/src/pac.rs: PacMeta and PacMetaEntry.  Option<usize> is             *)
(* [some |-> FALSE] or [some |-> TRUE, val |-> n].                         *)
(***************************************************************************)
None == [some |-> FALSE]

Some(v) == [some |-> TRUE, val |-> v]

new(unknown) == [unknown |-> unknown, file_entries |-> <<>>]

add_file_entry(self, file_name, file_id) ==
    [self EXCEPT !.file_entries =
        Append(@, [file_name |-> file_name, file_id |-> file_id])]

string_size(self) ==
    LET max == IF self.file_entries = <<>> THEN None
               ELSE Some(Max({Len(self.file_entries[x].file_name) :
                                   x \in 1..Len(self.file_entries)}))
    IN  IF max.some THEN Some(pad_to_nearest_with_excess(max.val, 4)) ELSE None

entry_size(self) ==
    LET ss == string_size(self)
    IN  IF ss.some
        THEN LET size_unaligned == ss.val + 12
                 single_entry_size == pad_to_nearest(size_unaligned, 16)
             IN  Some(single_entry_size * Len(self.file_entries))
        ELSE None

to_entry_bytes(self, offset, file_size, str_size) ==
    LET entry == to_fixed_length(self.file_name, str_size)
                    \o write_u32(self.file_id)
                    \o write_u32(offset)
                    \o write_u32(file_size)
        leftover_nulls == needed_to_align_with_excess(Len(entry), 16)
    IN  entry \o Zeros(leftover_nulls)

(***************************************************************************)
(* src/src/pac/parser.rs: the entry-table parsers.                         *)
(***************************************************************************)
take_str_of_size(i, size) ==
    LET t == take(size, i)
    IN  IF ~t.ok THEN Fail("Eof")
        ELSE LET u == take_until_nul(t.val)
             IN  IF ~u.ok THEN Fail("TakeUntil")
                 ELSE IF ~from_utf8_ok(u.val) THEN Fail("MapRes")
                 ELSE Ok(t.rest, u.val)

(* variant: leaves the record's padding unread *)
parse_entry_no_pad(i, str_size) ==
    LET n == take_str_of_size(i, str_size)
    IN  IF ~n.ok THEN n
        ELSE IF Len(n.rest) < 12 THEN Fail("Eof")
        ELSE Ok(Drop(n.rest, 12),
                [name |-> n.val, id |-> U32At(n.rest),
                 offset |-> U32At(Drop(n.rest, 4)), size |-> U32At(Drop(n.rest, 8))])

parse_entry(i, str_size) ==
    LET n == take_str_of_size(i, str_size)
    IN  IF ~n.ok THEN n
        ELSE LET a == le_u32(n.rest)
             IN  IF ~a.ok THEN a
        ELSE LET b == le_u32(a.rest)
             IN  IF ~b.ok THEN b
        ELSE LET c == le_u32(b.rest)
             IN  IF ~c.ok THEN c
        ELSE LET needed_padding == needed_to_align_with_excess(str_size + 12, 16)
                 p == take(needed_padding, c.rest)
             IN  IF ~p.ok THEN p
                 ELSE Ok(p.rest, [name |-> n.val, id |-> a.val,
                                  offset |-> b.val, size |-> c.val])

(* nom::multi::count(parse_entry, n): n records in a row, or the first error. *)
RECURSIVE count(_, _, _)
count(i, str_size, n) ==
    IF n = 0 THEN Ok(i, <<>>)
    ELSE LET e == parse_entry(i, str_size)
         IN  IF ~e.ok THEN e
             ELSE LET r == count(e.rest, str_size, n - 1)
                  IN  IF ~r.ok THEN r ELSE Ok(r.rest, <<e.val>> \o r.val)

(* variant: fileCount is not verified to be > 0 *)
parse_header_no_verify(i) ==
    IF Len(i) < 4 \/ Take(i, 4) # HEADER_MAGIC THEN Fail("Tag")
    ELSE IF Len(i) < HEADER_SIZE THEN Fail("Eof")
    ELSE Ok(Drop(i, HEADER_SIZE),
            [data_start |-> U32At(Drop(i, 4)), total_size |-> U32At(Drop(i, 8)),
             file_count |-> U32At(Drop(i, 12)), unknown |-> U32At(Drop(i, 16)),
             string_size |-> U32At(Drop(i, 20))])

(* Lines 17-27 of parse: magic, five u32 fields, 8 reserved bytes. *)
parse_header(i) ==
    LET m == tag(i)
    IN  IF ~m.ok THEN m
        ELSE LET ds == le_u32(m.rest)
             IN  IF ~ds.ok THEN ds
        ELSE LET ts == le_u32(ds.rest)
             IN  IF ~ts.ok THEN ts
        ELSE LET fc == le_u32(ts.rest)
             IN  IF ~fc.ok THEN fc
        ELSE IF ~(fc.val > 0) THEN Fail("Verify")
        ELSE LET un == le_u32(fc.rest)
             IN  IF ~un.ok THEN un
        ELSE LET ss == le_u32(un.rest)
             IN  IF ~ss.ok THEN ss
        ELSE LET pad == take(8, ss.rest)
             IN  IF ~pad.ok THEN pad
                 ELSE Ok(pad.rest, [data_start |-> ds.val, total_size |-> ts.val,
                                    file_count |-> fc.val, unknown |-> un.val,
                                    string_size |-> ss.val])

(***************************************************************************)
(* src/src/error.rs: PacError and its Display text (the quotes around the  *)
(* ErrorKind left out).                                                    *)
(***************************************************************************)
FileEntry == [variant |-> "FileEntry", kind |-> ""]

Nom(kind) == [variant |-> "Nom", kind |-> kind]

to_string(e) ==
    IF e.variant = "FileEntry" THEN "Could not parse File Entry"
    ELSE "Parser error " \o e.kind

(***************************************************************************)
(* Archive encode (spec 4.4, steps 1-8) over the PacMeta of pac.rs.        *)
(***************************************************************************)
RECURSIVE InsertById(_, _)
InsertById(e, s) ==
    IF s = <<>> THEN <<e>>
    ELSE IF s[Len(s)].file_id <= e.file_id THEN Append(s, e)
    ELSE Append(InsertById(e, Take(s, Len(s) - 1)), s[Len(s)])

RECURSIVE SortById(_)
SortById(s) ==
    IF s = <<>> THEN <<>> ELSE InsertById(s[Len(s)], SortById(Take(s, Len(s) - 1)))

Padded(content) == content \o Zeros(needed_to_align(Len(content), 16))

(* offset of entry k = length of the data buffer accumulated before it *)
OffsetOf(contents, k) == SumSeq([j \in 1..(k - 1) |-> Len(Padded(contents[j]))])

header_bytes(data_start, total_size, file_count, unknown, str_size) ==
    HEADER_MAGIC \o write_u32(data_start) \o write_u32(total_size)
        \o write_u32(file_count) \o write_u32(unknown) \o write_u32(str_size)
        \o Zeros(8)

encode(self, contentLookup) ==
    LET sorted == SortById(self.file_entries)
        n == Len(sorted)
        str_size == string_size(self).val
        data_start == HEADER_SIZE + entry_size(self).val
        contents == [k \in 1..n |-> contentLookup[sorted[k].file_name]]
        data_buffer == Flatten([k \in 1..n |-> Padded(contents[k])])
        total_size == data_start + Len(data_buffer)
        records == [k \in 1..n |->
                      to_entry_bytes(sorted[k], OffsetOf(contents, k),
                                     Len(contents[k]), str_size)]
    IN  [sorted |-> sorted, contents |-> contents, string_size |-> str_size,
         data_start |-> data_start, total_size |-> total_size,
         records |-> records, data_buffer |-> data_buffer,
         bytes |-> header_bytes(data_start, total_size, n, self.unknown, str_size)
                      \o Flatten(records) \o data_buffer]

(***************************************************************************)
(* Sample values.                                                          *)
(***************************************************************************)
Names == { <<>>, <<97, 98, 99>>, <<97, 98, 99, 100>>, <<98, 0, 99>>, <<195, 169>> }

FileIds == { 1, 258 }

Contents == { <<>>, <<42>>, [x \in 1..17 |-> 113] }

Unknowns == { 7 }

U32s == { 0, 1, 258, 16909060 }

(***************************************************************************)
(* State.                                                                  *)
(*   meta, lookup    the PacMeta being built and the name -> content       *)
(*                   lookup handed to encode                               *)
(*   layout          what encode computed (sizes, records, data buffer)    *)
(*   craft           how a hand-made input file was laid out               *)
(*   input           the byte buffer handed to parse (original_input)      *)
(*   pc              position in encode / parse                            *)
(*   i, header, entries, data, pac_meta, file_contents   the locals of     *)
(*                   parse                                                 *)
(*   result          what parse (or encode) returned                      *)
(*   call, ret       a direct call of one function and its return value    *)
(***************************************************************************)
VARIABLES meta, lookup, layout, craft, input, pc, i, header, entries, data,
          pac_meta, file_contents, result, call, ret

vars == << meta, lookup, layout, craft, input, pc, i, header, entries, data,
           pac_meta, file_contents, result, call, ret >>

parseVars == << i, header, entries, data, pac_meta, file_contents, result >>

NoHeader == [data_start |-> 0, total_size |-> 0, file_count |-> 0, unknown |-> 0,
             string_size |-> 0]

NoLayout == [made |-> FALSE]

NoCraft == [made |-> FALSE]

NoResult == [tag |-> "None", error |-> FileEntry, parsed |-> <<>>]

Returned(parsed) == [tag |-> "Ok", error |-> FileEntry, parsed |-> <<parsed>>]

Err(e) == [tag |-> "Err", error |-> e, parsed |-> <<>>]

(* a Rust panic: the call unwinds, nothing is returned *)
Panic == [tag |-> "Panic", error |-> FileEntry, parsed |-> <<>>]

EmptyMetadata == [variant |-> "EmptyMetadata", kind |-> ""]

ParseIdle ==
    /\ i = <<>>
    /\ header = NoHeader
    /\ entries = <<>>
    /\ data = <<>>
    /\ pac_meta = new(0)
    /\ file_contents = <<>>
    /\ result = NoResult

CallIdle == call = [fn |-> "idle", args |-> <<>>] /\ ret = <<>>

(***************************************************************************)
(* parse (src/src/pac/parser.rs:16-57), one action per stage.              *)
(***************************************************************************)
ParseHeader ==
    /\ pc = "header"
    /\ LET h == parse_header(input)
       IN  IF h.ok
           THEN /\ header' = h.val
                /\ i' = h.rest
                /\ pc' = "entries"
                /\ UNCHANGED result
           ELSE /\ result' = Err(Nom(h.kind))
                /\ pc' = "done"
                /\ UNCHANGED << header, i >>
    /\ UNCHANGED << meta, lookup, layout, craft, input, entries, data, pac_meta,
                    file_contents, call, ret >>

ParseEntries ==
    /\ pc = "entries"
    /\ LET r == count(i, header.string_size, header.file_count)
       IN  IF r.ok
           THEN /\ entries' = r.val
                /\ pc' = "slice"
                /\ UNCHANGED result
           ELSE /\ result' = Err(FileEntry)
                /\ pc' = "done"
                /\ UNCHANGED entries
    /\ UNCHANGED << meta, lookup, layout, craft, input, i, header, data, pac_meta,
                    file_contents, call, ret >>

SliceData ==
    /\ pc = "slice"
    /\ IF header.data_start > Len(input)
       THEN /\ result' = Panic
            /\ pc' = "done"
            /\ UNCHANGED << data, pac_meta, file_contents >>
       ELSE /\ data' = Drop(input, header.data_start)
            /\ pac_meta' = new(header.unknown)
            /\ file_contents' = <<>>
            /\ pc' = "files"
            /\ UNCHANGED result
    /\ UNCHANGED << meta, lookup, layout, craft, input, i, header, entries, call, ret >>

(* variant: seeks each content by the offset stored in its record *)
TakeFile_seek_stored_offset ==
    /\ pc = "files"
    /\ Len(file_contents) < Len(entries)
    /\ LET entry == entries[Len(file_contents) + 1]
           at == header.data_start + entry.offset
           file_data == IF at <= Len(input) THEN take(entry.size, Drop(input, at))
                        ELSE Fail("Eof")
       IN  IF file_data.ok
           THEN /\ data' = file_data.rest
                /\ pac_meta' = add_file_entry(pac_meta, entry.name, entry.id)
                /\ file_contents' =
                       Append(file_contents,
                              [name |-> entry.name, contents |-> file_data.val])
                /\ UNCHANGED << pc, result >>
           ELSE /\ result' = Err(Nom(file_data.kind))
                /\ pc' = "done"
                /\ UNCHANGED << data, pac_meta, file_contents >>
    /\ UNCHANGED << meta, lookup, layout, craft, input, i, header, entries, call, ret >>

TakeFile ==
    /\ pc = "files"
    /\ Len(file_contents) < Len(entries)
    /\ LET entry == entries[Len(file_contents) + 1]
           file_data == take(entry.size, data)
           padding == IF file_data.ok
                      THEN take(needed_to_align(entry.size, 16), file_data.rest)
                      ELSE file_data
       IN  IF padding.ok
           THEN /\ data' = padding.rest
                /\ pac_meta' = add_file_entry(pac_meta, entry.name, entry.id)
                /\ file_contents' =
                       Append(file_contents,
                              [name |-> entry.name, contents |-> file_data.val])
                /\ UNCHANGED << pc, result >>
           ELSE /\ result' = Err(Nom(padding.kind))
                /\ pc' = "done"
                /\ UNCHANGED << data, pac_meta, file_contents >>
    /\ UNCHANGED << meta, lookup, layout, craft, input, i, header, entries, call, ret >>

Return ==
    /\ pc = "files"
    /\ Len(file_contents) = Len(entries)
    /\ result' = Returned([meta |-> pac_meta, files |-> file_contents])
    /\ pc' = "done"
    /\ UNCHANGED << meta, lookup, layout, craft, input, i, header, entries, data,
                    pac_meta, file_contents, call, ret >>

(***************************************************************************)
(* Building a PacMeta and encoding it.                                     *)
(***************************************************************************)
AddFileEntry ==
    /\ pc = "build"
    /\ Len(meta.file_entries) < MaxEntries
    /\ \E file_name \in Names, file_id \in FileIds :
          meta' = add_file_entry(meta, file_name, file_id)
    /\ UNCHANGED << lookup, layout, craft, input, pc, parseVars, call, ret >>

NamesOf(self) == { self.file_entries[x].file_name : x \in 1..Len(self.file_entries) }

Encode ==
    /\ pc = "build"
    /\ IF meta.file_entries = <<>>
       THEN /\ result' = Err(EmptyMetadata)
            /\ pc' = "done"
            /\ UNCHANGED << lookup, layout, input >>
       ELSE \E contentLookup \in [NamesOf(meta) -> Contents] :
               /\ lookup' = contentLookup
               /\ layout' = [made |-> TRUE] @@ encode(meta, contentLookup)
               /\ input' = encode(meta, contentLookup).bytes
               /\ pc' = "header"
               /\ UNCHANGED result
    /\ UNCHANGED << meta, craft, i, header, entries, data, pac_meta, file_contents,
                    call, ret >>

Init ==
    /\ \E unknown \in Unknowns : meta = new(unknown)
    /\ lookup = <<>>
    /\ layout = NoLayout
    /\ craft = NoCraft
    /\ input = <<>>
    /\ pc = "build"
    /\ ParseIdle
    /\ CallIdle

Next ==
    \/ AddFileEntry
    \/ Encode
    \/ ParseHeader
    \/ ParseEntries
    \/ SliceData
    \/ TakeFile
    \/ Return

Spec == Init /\ [][Next]_vars

(***************************************************************************)
(* Properties of encode followed by parse (specification Spec).           *)
(***************************************************************************)
NulFree(name) == \A p \in 1..Len(name) : name[p] # 0

Encoded == layout.made

Supplied ==
    [k \in 1..Len(layout.sorted) |->
        << layout.sorted[k].file_name, layout.sorted[k].file_id,
           lookup[layout.sorted[k].file_name] >>]

Decoded ==
    LET p == result.parsed[1]
    IN  [k \in 1..Len(p.files) |->
            << p.files[k].name, p.meta.file_entries[k].file_id, p.files[k].contents >>]

(* C1: decoding the bytes produced by encode, for non-empty metadata whose *)
(* names hold no NUL byte, succeeds and yields exactly the supplied        *)
(* (name, fileId, content) triples in fileId-ascending order.              *)
C1_RoundTrip ==
    (pc = "done" /\ Encoded /\ \A n \in NamesOf(meta) : NulFree(n))
        => /\ result.tag = "Ok"
           /\ Len(result.parsed[1].meta.file_entries) = Len(result.parsed[1].files)
           /\ Decoded = Supplied

(* The round trip does hold whenever string_size + 12 is no multiple of 16. *)
RoundTripWhenUnaligned ==
    (pc = "done" /\ Encoded /\ (\A n \in NamesOf(meta) : NulFree(n))
        /\ (layout.string_size + 12) % 16 # 0)
        => result.tag = "Ok" /\ Decoded = Supplied

(* C2: on encode, dataStart = 32 + entry_size(), entry_size() equals the   *)
(* number of bytes of the entry records emitted by to_entry_bytes, so the  *)
(* data section begins right after the last record; and totalSize =        *)
(* dataStart + length of the data buffer.                                  *)
C2_HeaderLayout ==
    Encoded =>
        /\ layout.data_start = HEADER_SIZE + entry_size(meta).val
        /\ entry_size(meta).val = Len(Flatten(layout.records))
        /\ Drop(input, layout.data_start) = layout.data_buffer
        /\ layout.total_size = layout.data_start + Len(layout.data_buffer)
        /\ U32At(Drop(input, 4)) = layout.data_start
        /\ U32At(Drop(input, 8)) = layout.total_size

Longest(self) == Max({ Len(n) : n \in NamesOf(self) })

NameFieldOk(name, field, recover) ==
    /\ Len(name) < Len(field)
    /\ Take(field, Len(name)) = name
    /\ \A p \in (Len(name) + 1)..Len(field) : field[p] = 0
    /\ recover => take_str_of_size(field, Len(field)) = Ok(<<>>, name)

NameFieldsOk(onlyNulFree) ==
    IF meta.file_entries = <<>>
    THEN string_size(meta) = None /\ entry_size(meta) = None
    ELSE LET ss == string_size(meta).val
         IN  /\ ss % 4 = 0
             /\ ss - Longest(meta) \in 1..4
             /\ \A n \in NamesOf(meta) :
                   NameFieldOk(n, to_fixed_length(n, ss), onlyNulFree => NulFree(n))
             /\ Encoded =>
                   \A k \in 1..Len(layout.records) :
                      NameFieldOk(layout.sorted[k].file_name,
                                  Take(layout.records[k], ss),
                                  onlyNulFree => NulFree(layout.sorted[k].file_name))

(* C9 as written: string_size() is a multiple of 4, exceeds every name     *)
(* length (the longest by 1 to 4), so no name is truncated, every name     *)
(* field has a NUL after the name, and take_str_of_size recovers every     *)
(* name exactly; both sizes are None for empty metadata.                   *)
C9_Original == NameFieldsOk(FALSE)

(* C9 amended: the same, with take_str_of_size recovering exactly the      *)
(* names that hold no NUL byte themselves.                                 *)
C9_NameFieldWidth == NameFieldsOk(TRUE)

(* an encoded archive whose longest name is already a multiple of 4 long *)
C9_Witness ==
    /\ Encoded
    /\ Longest(meta) = 4
    /\ layout.string_size = 8
    /\ \E n \in NamesOf(meta) : ~NulFree(n)

(***************************************************************************)
(* Input files made by hand (handle_pac reads any file): the layout of     *)
(* spec section 6 around n records, with the header fields, the stored     *)
(* offsets and the file length each either right or off.                   *)
(***************************************************************************)
CraftNames == { <<97, 98, 99>>, <<97, 98, 99, 100>> }

BadMagic == << 70, 80, 65, 68 >>

CraftLayout(c) ==
    LET str_size == pad_to_nearest_with_excess(Len(c.name), 4)
        records == [k \in 1..c.n |->
                      to_entry_bytes([file_name |-> c.name, file_id |-> k],
                                     IF c.offsets = "junk" THEN 77
                                     ELSE OffsetOf(c.contents, k),
                                     Len(c.contents[k]), str_size)]
        data_buffer == Flatten([k \in 1..c.n |-> Padded(c.contents[k])])
        true_start == HEADER_SIZE + Len(Flatten(records))
        data_start == CASE c.data_start = "true" -> true_start
                        [] c.data_start = "zero" -> 0
                        [] c.data_start = "late" -> true_start + 16
                        [] OTHER -> 4096
        total_size == IF c.total_size = "true" THEN true_start + Len(data_buffer) ELSE 3
        whole == (IF c.magic THEN HEADER_MAGIC ELSE BadMagic)
                    \o Drop(header_bytes(data_start, total_size, c.file_count, 7,
                                         str_size + c.string_size_off), 4)
                    \o Flatten(records) \o data_buffer
        length == CASE c.cut = "none" -> Len(whole)
                    [] c.cut = "last byte" -> Len(whole) - 1
                    [] c.cut = "entry table" -> true_start - 1
                    [] c.cut = "header" -> 20
                    [] OTHER -> 2
    IN  Take(whole, length)

WellFormed(c) ==
    /\ c.magic
    /\ c.data_start = "true"
    /\ c.file_count = c.n
    /\ c.string_size_off = 0
    /\ c.cut = "none"

InitParse ==
    /\ \E n \in 1..MaxEntries :
          \E name \in CraftNames, contents \in [1..n -> Contents],
             offsets \in {"true", "junk"}, magic \in BOOLEAN,
             ds \in {"true", "zero", "late", "beyond"},
             ts \in {"true", "junk"}, fc \in {n, 0, n + 1}, sso \in {0, 4},
             cut \in {"none", "last byte", "entry table", "header", "magic"} :
             craft = [made |-> TRUE, n |-> n, name |-> name, contents |-> contents,
                      offsets |-> offsets, magic |-> magic, data_start |-> ds,
                      total_size |-> ts, file_count |-> fc, string_size_off |-> sso,
                      cut |-> cut]
    /\ input = CraftLayout(craft)
    /\ meta = new(0)
    /\ lookup = <<>>
    /\ layout = NoLayout
    /\ pc = "header"
    /\ ParseIdle
    /\ CallIdle

NextParse ==
    \/ ParseHeader
    \/ ParseEntries
    \/ SliceData
    \/ TakeFile
    \/ Return

SpecParse == InitParse /\ [][NextParse]_vars

(***************************************************************************)
(* Properties of parse on arbitrary input (specification SpecParse).      *)
(***************************************************************************)
(* The fields of the input, read at the places the format gives them. *)
FieldAt(at) == U32At(Drop(input, at))

Stride(ss) == ss + 12 + (16 - ((ss + 12) % 16))

RecordAt(k) == HEADER_SIZE + (k - 1) * Stride(FieldAt(20))

SizeOf(k) == FieldAt(RecordAt(k) + FieldAt(20) + 8)

IdOf(k) == FieldAt(RecordAt(k) + FieldAt(20))

NameOf(k) == take_until_nul(SubSeq(input, RecordAt(k) + 1, RecordAt(k) + FieldAt(20))).val

RECURSIVE ContentStart(_)
ContentStart(k) ==
    IF k = 1 THEN FieldAt(4)
    ELSE ContentStart(k - 1) + SizeOf(k - 1) + ((16 - (SizeOf(k - 1) % 16)) % 16)

(* C3: parse returns exactly fileCount entries and blobs in table order,   *)
(* blob k named as entry k, its content the size_k bytes that start at     *)
(* dataStart + sum over j < k of (size_j + neededToAlign(size_j, 16)); a   *)
(* well-formed buffer decodes to the contents laid out in it, whatever     *)
(* the stored offsets and totalSize are.                                   *)
C3_SequentialCursor ==
    /\ (pc = "done" /\ WellFormed(craft))
          => /\ result.tag = "Ok"
             /\ Len(result.parsed[1].files) = craft.n
             /\ \A k \in 1..craft.n :
                   result.parsed[1].files[k].contents = craft.contents[k]
    /\ (pc = "done" /\ result.tag = "Ok")
          => LET p == result.parsed[1]
                 n == FieldAt(12)
             IN  /\ Len(p.files) = n
                 /\ Len(p.meta.file_entries) = n
                 /\ \A k \in 1..n :
                       /\ p.files[k].name = NameOf(k)
                       /\ p.meta.file_entries[k] =
                             [file_name |-> NameOf(k), file_id |-> IdOf(k)]
                       /\ p.files[k].contents =
                             SubSeq(input, ContentStart(k) + 1,
                                    ContentStart(k) + SizeOf(k))

(* a well-formed two-entry archive with junk offsets and a junk totalSize, *)
(* decoded, whose first content needs padding                              *)
C3_Witness ==
    /\ pc = "done"
    /\ result.tag = "Ok"
    /\ WellFormed(craft)
    /\ craft.offsets = "junk"
    /\ craft.total_size = "junk"
    /\ craft.n >= 2
    /\ Len(craft.contents[1]) = 1
    /\ Len(craft.contents[2]) = 17

(* the section of the file an error's text names *)
Section(e) ==
    IF to_string(e) = "Could not parse File Entry" THEN "entry table" ELSE "none"

HeaderOk == parse_header(input).ok

TableEnd == HEADER_SIZE + FieldAt(12) * Stride(FieldAt(20))

(* C4: a buffer shorter than dataStart, or whose data section ends before  *)
(* an entry's size bytes and padding, gives a truncation error naming the  *)
(* data section; a truncated entry table gives an error naming the entry   *)
(* table; decode never crashes and never returns a partial result.         *)
C4_TruncationIsError ==
    pc = "done" =>
        /\ result.tag # "Panic"
        /\ result.tag = "Err" => result.parsed = <<>>
        /\ (HeaderOk /\ Len(input) < TableEnd)
              => result.tag = "Err" /\ Section(result.error) = "entry table"
        /\ (HeaderOk /\ entries # <<>> /\ Len(input) < FieldAt(4))
              => result.tag = "Err" /\ Section(result.error) = "data section"
        /\ (HeaderOk /\ entries # <<>> /\ Len(file_contents) < Len(entries))
              => result.tag = "Err" /\ Section(result.error) = "data section"

(* What the code does instead: a buffer shorter than dataStart panics. *)
ShortBufferPanics ==
    (pc = "done" /\ HeaderOk /\ entries # <<>>)
        => (result.tag = "Panic" <=> Len(input) < FieldAt(4))

BadHeader ==
    \/ Len(input) < 4
    \/ Take(input, 4) # HEADER_MAGIC
    \/ Len(input) >= 16 /\ FieldAt(12) = 0

(* C5: when the first 4 bytes are not FPAC, or the fileCount field is 0,   *)
(* parse returns an error, produces no metadata and no blob, and reads no  *)
(* entry record and no data byte, whatever else the buffer holds.          *)
C5_HeaderFirst ==
    BadHeader =>
        /\ pc \in {"header", "done"}
        /\ i = <<>> /\ entries = <<>> /\ data = <<>>
        /\ pac_meta = new(0) /\ file_contents = <<>>
        /\ pc = "done" =>
              /\ result.tag = "Err"
              /\ result.parsed = <<>>
              /\ result.error =
                    Nom(IF Len(input) < 4 \/ Take(input, 4) # HEADER_MAGIC
                        THEN "Tag" ELSE "Verify")

(* fileCount = 0 in an otherwise complete archive, rejected *)
C5_Witness ==
    /\ pc = "done"
    /\ craft.made /\ craft.magic /\ craft.file_count = 0 /\ craft.cut = "none"
    /\ craft.data_start = "true"
    /\ result = Err(Nom("Verify"))

(***************************************************************************)
(* Direct calls of the pure functions, inputs drawn from bounded sets      *)
(* (specification SpecUnit).                                               *)
(***************************************************************************)
Sizes == 0..MaxSize

Steps == 1..MaxStep

Strings == UNION { [1..m -> {0, 97, 98}] : m \in 0..MaxLen }

StrSizes == 0..(MaxStep + 3)

Tails == { <<>>, <<9, 9, 9>> }

Idle == call.fn = "idle"

PipelineUnchanged ==
    UNCHANGED << meta, lookup, layout, craft, input, pc, parseVars >>

CallNeededToAlign ==
    /\ Idle
    /\ \E size \in Sizes, step \in Steps :
          /\ call' = [fn |-> "needed_to_align", args |-> << size, step >>]
          /\ ret' = needed_to_align(size, step)
    /\ PipelineUnchanged

CallNeededToAlignWithExcess ==
    /\ Idle
    /\ \E size \in Sizes, step \in Steps :
          /\ call' = [fn |-> "needed_to_align_with_excess", args |-> << size, step >>]
          /\ ret' = needed_to_align_with_excess(size, step)
    /\ PipelineUnchanged

CallPadToNearest ==
    /\ Idle
    /\ \E size \in Sizes, step \in Steps :
          /\ call' = [fn |-> "pad_to_nearest", args |-> << size, step >>]
          /\ ret' = pad_to_nearest(size, step)
    /\ PipelineUnchanged

CallPadToNearestWithExcess ==
    /\ Idle
    /\ \E size \in Sizes, step \in Steps :
          /\ call' = [fn |-> "pad_to_nearest_with_excess", args |-> << size, step >>]
          /\ ret' = pad_to_nearest_with_excess(size, step)
    /\ PipelineUnchanged

CallToFixedLength ==
    /\ Idle
    /\ \E string \in Strings, size \in 0..(MaxLen + 1) :
          /\ call' = [fn |-> "to_fixed_length", args |-> << string, size >>]
          /\ ret' = to_fixed_length(string, size)
    /\ PipelineUnchanged

CallToEntryBytes ==
    /\ Idle
    /\ \E file_name \in Names, file_id \in U32s, offset \in U32s, file_size \in U32s,
          str_size \in StrSizes :
          /\ call' = [fn |-> "to_entry_bytes",
                      args |-> << [file_name |-> file_name, file_id |-> file_id],
                                  offset, file_size, str_size >>]
          /\ ret' = to_entry_bytes([file_name |-> file_name, file_id |-> file_id],
                                   offset, file_size, str_size)
    /\ PipelineUnchanged

(* parse_entry on a record to_entry_bytes wrote, followed by what comes next *)
CallParseEntry ==
    /\ call.fn = "to_entry_bytes"
    /\ \E tail \in Tails :
          /\ call' = [fn |-> "parse_entry", args |-> << ret \o tail, call.args[4] >>,
                      written |-> call.args, record |-> ret, tail |-> tail]
          /\ ret' = parse_entry(ret \o tail, call.args[4])
    /\ PipelineUnchanged

InitUnit ==
    /\ meta = new(0)
    /\ lookup = <<>>
    /\ layout = NoLayout
    /\ craft = NoCraft
    /\ input = <<>>
    /\ pc = "unit"
    /\ ParseIdle
    /\ CallIdle

NextUnit ==
    \/ CallNeededToAlign
    \/ CallNeededToAlignWithExcess
    \/ CallPadToNearest
    \/ CallPadToNearestWithExcess
    \/ CallToFixedLength
    \/ CallToEntryBytes
    \/ CallParseEntry

SpecUnit == InitUnit /\ [][NextUnit]_vars

(* C6: needed_to_align(size, step) + size is a multiple of step, and       *)
(* 0 <= needed_to_align(size, step) < step, 0 exactly when size is a       *)
(* multiple of step.                                                       *)
C6_NeededToAlign ==
    call.fn = "needed_to_align" =>
        LET size == call.args[1]
            step == call.args[2]
        IN  /\ (ret + size) % step = 0
            /\ 0 <= ret /\ ret < step
            /\ ret = 0 <=> size % step = 0

C6_Witness == call = [fn |-> "needed_to_align", args |-> << 32, 16 >>] /\ ret = 0

(* C7: needed_to_align_with_excess(size, step) lies in 1..step, is never   *)
(* 0, and equals step exactly when size is a multiple of step.             *)
C7_NeededToAlignWithExcess ==
    call.fn = "needed_to_align_with_excess" =>
        LET size == call.args[1]
            step == call.args[2]
        IN  /\ ret \in 1..step
            /\ ret # 0
            /\ ret = step <=> size % step = 0

C7_Witness ==
    call = [fn |-> "needed_to_align_with_excess", args |-> << 32, 16 >>] /\ ret = 16

(* C8: to_fixed_length(s, n) returns exactly n bytes: s then zeros when    *)
(* len(s) <= n, the first n bytes of s when len(s) > n.                    *)
C8_ToFixedLength ==
    call.fn = "to_fixed_length" =>
        LET string == call.args[1]
            size == call.args[2]
        IN  /\ Len(ret) = size
            /\ Len(string) <= size =>
                  /\ \A p \in 1..Len(string) : ret[p] = string[p]
                  /\ \A p \in (Len(string) + 1)..size : ret[p] = 0
            /\ Len(string) > size => \A p \in 1..size : ret[p] = string[p]

(* a string cut short *)
C8_Witness ==
    /\ call.fn = "to_fixed_length"
    /\ call.args = << <<97, 98, 0>>, 2 >>
    /\ ret = <<97, 98>>

HasNul(bytes) == \E p \in 1..Len(bytes) : bytes[p] = 0

RecordShape ==
    call.fn = "to_entry_bytes" =>
        LET self == call.args[1]
            str_size == call.args[4]
            body == str_size + 12
        IN  /\ Len(ret) = body + (16 - (body % 16))
            /\ Len(ret) % 16 = 0
            /\ Len(ret) > body
            /\ \A p \in (body + 1)..Len(ret) : ret[p] = 0
            /\ SubSeq(ret, str_size + 1, body) =
                  write_u32(self.file_id) \o write_u32(call.args[2])
                      \o write_u32(call.args[3])

RecordRead ==
    /\ ret.ok
    /\ ret.rest = call.tail
    /\ ret.val.id = call.written[1].file_id
    /\ ret.val.offset = call.written[2]
    /\ ret.val.size = call.written[3]

(* C10 as written: for every string_size the record of to_entry_bytes is   *)
(* string_size + 12 + neededToAlignWithExcess(string_size + 12, 16) bytes  *)
(* long, a multiple of 16 with at least one trailing zero byte, and        *)
(* parse_entry consumes exactly that record and returns the fileId,        *)
(* offset and size written.                                                *)
C10_Original ==
    /\ RecordShape
    /\ call.fn = "parse_entry" => RecordRead

(* C10 amended: parse_entry does so whenever the name field written holds  *)
(* a NUL byte, and fails when it holds none.                               *)
C10_RecordStride ==
    /\ RecordShape
    /\ call.fn = "parse_entry" =>
          IF HasNul(Take(call.record, call.written[4]))
          THEN /\ RecordRead
               /\ ret.val.name =
                     take_until_nul(Take(call.record, call.written[4])).val
          ELSE ~ret.ok

(* a record whose name and fields already fill 16 bytes, read back with    *)
(* the next record's bytes behind it                                       *)
C10_Witness ==
    /\ call.fn = "parse_entry"
    /\ call.written[4] = 4
    /\ Len(call.record) = 32
    /\ call.tail # <<>>
    /\ ret.ok
    /\ ret.val = [name |-> <<97, 98, 99>>, id |-> 16909060, offset |-> 258, size |-> 1]

====
